---- MODULE Spec2Model ----
(***************************************************************************)
(* ConnectionPoolManager (src/src/core/connection_pool.py) as a state      *)
(* machine.  One asyncio event loop runs the coroutines; a step of the     *)
(* model is the code a coroutine runs between two awaits.  The factory     *)
(* (_create_connection, _close_connection, _is_connection_healthy) is the  *)
(* environment: a creation succeeds or raises, a health check of an open   *)
(* handle answers either way, a health check of a closed handle answers    *)
(* False, a close never raises (the adapters catch every Exception).       *)
(* Callers enter acquire() once initialize() has returned, as the adapters *)
(* do (connect() awaits initialize() before any tool runs).  Logging calls *)
(* are left out.                                                           *)
(***************************************************************************)
EXTENDS Integers, Sequences, FiniteSets

\* Largest min_size / max_size of the configurations explored.
MaxPoolSize == 2

\* recycle_connections_seconds, in clock ticks.
RecycleAge == 1

\* Number of connection handles that can exist (open, or closed and still
\* referenced) at one time.
MaxHandles == 4

\* Concurrent callers of acquire() in the general specification.
NumCallers == 2

\* Callers there can be: the burst of max_size + 1 callers needs them all.
Callers == 1 .. (MaxPoolSize + 1)

Handles == 1 .. MaxHandles

\* PoolConfig: min_size and max_size are validated independently (ge=1 each),
\* nothing relates them.
PoolConfig == [min_size : 1 .. MaxPoolSize, max_size : 1 .. MaxPoolSize]

VARIABLES
    config,              \* self.config
    callers,             \* the coroutines that call acquire()
    phase,               \* "new", "initializing", "failed", "ready", "closing", "closed"
    pool,                \* self._pool: the idle queue, a sequence of handles
    active_connections,  \* self._active_connections
    lock,                \* self._lock: 0 when free, else the caller holding it
    health_check_task,   \* "none", "sleep", "health", "close", "create", "stopped"
    audit_pooled,        \* the wrapper _health_check_loop holds (0: none)
    checked,             \* _health_check_loop's local checked
    to_check,            \* _health_check_loop's local to_check
    init_pooled,         \* the wrapper initialize holds while its put is blocked
    conn,                \* every handle: st "free" | "open" | "closed", and its age
    pc,                  \* each caller's position in acquire()
    pooled,              \* each caller's local variable pooled (0: None)
    result,              \* "ok" while the caller holds what acquire() yielded, the
                         \* error of its last acquire() if that raised, else "none"
    verified,            \* history: the held handle passed this acquisition's health check
    replaced,            \* history: the close-and-replace steps of this acquisition
                         \* (both forgotten when the wrapper is released)
    at_close,            \* history: of the wrappers that were in the idle queue
                         \* (idle) or yielded to a caller (out) when close() was
                         \* called, those not closed / not released since
    security,            \* SecurityManager.config (a SecurityConfig)
    query,               \* each caller's argument to the adapter's _execute_query
    response,            \* how each caller's _execute_query has ended so far
    input,               \* the argument of a SecurityManager method under study
    output               \* what that method returned ("pending" before the call)

vars == << config, callers, phase, pool, active_connections, lock, health_check_task,
           audit_pooled, checked, to_check, init_pooled, conn, pc, pooled,
           result, verified, replaced, at_close,
           security, query, response, input, output >>

poolVars == << config, callers, phase, pool, active_connections, lock >>
auditVars == << health_check_task, audit_pooled, checked, to_check >>
callerVars == << pc, pooled, result, verified, replaced >>
securityVars == << security, query, response, input, output >>

----------------------------------------------------------------------------
\* SecurityManager (src/src/core/security.py).  A Python str is a sequence of
\* one-character strings; the characters told apart are ASCII letters, digits,
\* "_", white space and other characters.

LowerLetters == <<"a", "b", "c", "d", "e", "f", "g", "h", "i", "j", "k", "l", "m", "n", "o", "p", "q", "r", "s", "t", "u", "v", "w", "x", "y", "z">>

UpperLetters == <<"A", "B", "C", "D", "E", "F", "G", "H", "I", "J", "K", "L", "M", "N", "O", "P", "Q", "R", "S", "T", "U", "V", "W", "X", "Y", "Z">>

Letters == {LowerLetters[i] : i \in DOMAIN LowerLetters}
             \cup {UpperLetters[i] : i \in DOMAIN UpperLetters}

Digits == {"0", "1", "2", "3", "4", "5", "6", "7", "8", "9"}

\* What \s of a regular expression matches and str.strip() removes.
Whitespace == {" ", "\t", "\n", "\r", "\f"}

\* What \w of a regular expression matches.
WordChars == Letters \cup Digits \cup {"_"}

\* str.upper() and str.lower(), character by character.
upper_char(ch) ==
    IF \E i \in DOMAIN LowerLetters : LowerLetters[i] = ch
    THEN UpperLetters[CHOOSE i \in DOMAIN LowerLetters : LowerLetters[i] = ch]
    ELSE ch

lower_char(ch) ==
    IF \E i \in DOMAIN UpperLetters : UpperLetters[i] = ch
    THEN LowerLetters[CHOOSE i \in DOMAIN UpperLetters : UpperLetters[i] = ch]
    ELSE ch

upper(s) == [i \in 1 .. Len(s) |-> upper_char(s[i])]

lower(s) == [i \in 1 .. Len(s) |-> lower_char(s[i])]

\* str.strip(): s without its leading and trailing white space.
strip(s) ==
    LET ks == {i \in 1 .. Len(s) : s[i] \notin Whitespace}
    IN  IF ks = {}
        THEN << >>
        ELSE SubSeq(s, CHOOSE i \in ks : \A j \in ks : i <= j,
                       CHOOSE i \in ks : \A j \in ks : j <= i)

\* s occurs in t at position i (t[i] is its first character).
occurs_at(s, t, i) ==
    /\ i + Len(s) - 1 <= Len(t)
    /\ \A j \in 1 .. Len(s) : t[i + j - 1] = s[j]

\* Python's "s in t" for two str.
contains(t, s) == \E i \in 1 .. (Len(t) + 1) : occurs_at(s, t, i)

\* The regular expressions of the module, as sequences of elements: a literal
\* text, \s+, \s*, \w+, \b, a group of alternative literals (A|B), an
\* optional literal (A)?.  All are compiled with re.IGNORECASE.
Lit(s) == [op |-> "lit", s |-> s]

Alt(S) == [op |-> "alt", of |-> S]

Opt(s) == [op |-> "opt", s |-> s]

Spaces1 == [op |-> "s+"]

Spaces0 == [op |-> "s*"]

Word1 == [op |-> "w+"]

WordBoundary == [op |-> "b"]

\* \b at position i of t: exactly one of t[i-1], t[i] is a word character
\* (the ends of t count as non-word).
at_boundary(t, i) ==
    (i > 1 /\ t[i - 1] \in WordChars) # (i <= Len(t) /\ t[i] \in WordChars)

\* The n characters of t from position i are all in set S.
run_of(S, t, i, n) == \A j \in i .. (i + n - 1) : t[j] \in S

\* Elements k.. of pattern p match t from position i on, ignoring case.
RECURSIVE match(_, _, _, _)
match(p, k, t, i) ==
    IF k > Len(p)
    THEN TRUE
    ELSE LET e == p[k]
             u == upper(t)
         IN  CASE e.op = "lit" ->
                    occurs_at(upper(e.s), u, i) /\ match(p, k + 1, t, i + Len(e.s))
               [] e.op = "alt" ->
                    \E s \in e.of :
                        occurs_at(upper(s), u, i) /\ match(p, k + 1, t, i + Len(s))
               [] e.op = "opt" ->
                    \/ match(p, k + 1, t, i)
                    \/ occurs_at(upper(e.s), u, i) /\ match(p, k + 1, t, i + Len(e.s))
               [] e.op = "s+" ->
                    \E n \in 1 .. (Len(t) - i + 1) :
                        run_of(Whitespace, t, i, n) /\ match(p, k + 1, t, i + n)
               [] e.op = "s*" ->
                    \E n \in 0 .. (Len(t) - i + 1) :
                        run_of(Whitespace, t, i, n) /\ match(p, k + 1, t, i + n)
               [] e.op = "w+" ->
                    \E n \in 1 .. (Len(t) - i + 1) :
                        run_of(WordChars, t, i, n) /\ match(p, k + 1, t, i + n)
               [] e.op = "b" ->
                    at_boundary(t, i) /\ match(p, k + 1, t, i)

\* pattern.search(t): the pattern matches somewhere in t.
search(p, t) == \E i \in 1 .. (Len(t) + 1) : match(p, 1, t, i)

ObjectKinds == {<<"T", "A", "B", "L", "E">>, <<"D", "A", "T", "A", "B", "A", "S", "E">>, <<"I", "N", "D", "E", "X">>, <<"V", "I", "E", "W">>, <<"S", "C", "H", "E", "M", "A">>}

\* Patterns that indicate write operations.
WRITE_PATTERNS == <<
    << WordBoundary, Lit(<<"I", "N", "S", "E", "R", "T">>), Spaces1, Lit(<<"I", "N", "T", "O">>), WordBoundary >>,
    << WordBoundary, Lit(<<"U", "P", "D", "A", "T", "E">>), Spaces1, Word1, Spaces1, Lit(<<"S", "E", "T">>), WordBoundary >>,
    << WordBoundary, Lit(<<"D", "E", "L", "E", "T", "E">>), Spaces1, Lit(<<"F", "R", "O", "M">>), WordBoundary >>,
    << WordBoundary, Lit(<<"D", "R", "O", "P">>), Spaces1, Alt(ObjectKinds), WordBoundary >>,
    << WordBoundary, Lit(<<"T", "R", "U", "N", "C", "A", "T", "E">>), Spaces1, Lit(<<"T", "A", "B", "L", "E">>), WordBoundary >>,
    << WordBoundary, Lit(<<"A", "L", "T", "E", "R">>), Spaces1, Alt(ObjectKinds), WordBoundary >>,
    << WordBoundary, Lit(<<"C", "R", "E", "A", "T", "E">>), Spaces1, Alt(ObjectKinds), WordBoundary >>,
    << WordBoundary, Lit(<<"G", "R", "A", "N", "T">>), WordBoundary >>,
    << WordBoundary, Lit(<<"R", "E", "V", "O", "K", "E">>), WordBoundary >>,
    << WordBoundary, Lit(<<"E", "X", "E", "C">>), Opt(<<"U", "T", "E">>), Spaces1 >> >>

\* Patterns that indicate potential SQL injection.
INJECTION_PATTERNS == <<
    << Lit(<<";">>), Spaces0, Lit(<<"-", "-">>) >>,
    << Lit(<<"'">>), Spaces0, Lit(<<"O", "R">>), Spaces1, Lit(<<"'">>) >>,
    << Lit(<<"'">>), Spaces0, Lit(<<"O", "R">>), Spaces1, Lit(<<"1">>), Spaces0, Lit(<<"=">>),
       Spaces0, Lit(<<"1">>) >>,
    << Lit(<<"U", "N", "I", "O", "N">>), Spaces1, Lit(<<"S", "E", "L", "E", "C", "T">>) >>,
    << Lit(<<"I", "N", "T", "O">>), Spaces1, Lit(<<"O", "U", "T", "F", "I", "L", "E">>) >>,
    << Lit(<<"L", "O", "A", "D", "_", "F", "I", "L", "E">>) >>,
    << Lit(<<"B", "E", "N", "C", "H", "M", "A", "R", "K">>), Spaces0, Lit(<<"(">>) >>,
    << Lit(<<"S", "L", "E", "E", "P">>), Spaces0, Lit(<<"(">>) >>,
    << Lit(<<"W", "A", "I", "T", "F", "O", "R">>), Spaces1, Lit(<<"D", "E", "L", "A", "Y">>) >>,
    << Lit(<<"x", "p", "_", "c", "m", "d", "s", "h", "e", "l", "l">>) >>,
    << Lit(<<"s", "p", "_", "e", "x", "e", "c", "u", "t", "e", "s", "q", "l">>) >> >>

\* SecurityConfig.max_query_length's default.
DefaultMaxQueryLength == 10000

ExceedsMaximum_OffByOne(q, cfg) == Len(q) >= cfg.max_query_length

\* len(query) > self.config.max_query_length
ExceedsMaximum(q, cfg) == Len(q) > cfg.max_query_length

WriteChecked_Always(cfg) == TRUE

\* if self.config.read_only
WriteChecked(cfg) == cfg.read_only

\* validate_query(query): (is_valid, error_message).  Of a message, the part
\* that does not depend on the query is kept (not the length, keyword or table
\* it names).
validate_query(q, cfg) ==
    IF q = << >> \/ strip(q) = << >>
    THEN [is_valid |-> FALSE, error |-> "Empty query provided"]
    ELSE IF ExceedsMaximum(q, cfg)
    THEN [is_valid |-> FALSE, error |-> "Query exceeds maximum length"]
    ELSE IF WriteChecked(cfg)
            /\ \E i \in DOMAIN WRITE_PATTERNS : search(WRITE_PATTERNS[i], q)
    THEN [is_valid |-> FALSE,
          error |-> "Write operations are not allowed in read-only mode"]
    ELSE IF \E i \in DOMAIN INJECTION_PATTERNS : search(INJECTION_PATTERNS[i], q)
    THEN [is_valid |-> FALSE,
          error |-> "Query contains potentially dangerous patterns"]
    ELSE IF \E i \in DOMAIN cfg.blocked_keywords :
                contains(upper(q), upper(cfg.blocked_keywords[i]))
    THEN [is_valid |-> FALSE, error |-> "Query contains blocked keyword"]
    ELSE IF \E i \in DOMAIN cfg.blocked_tables :
                search(<< WordBoundary, Lit(cfg.blocked_tables[i]), WordBoundary >>, q)
    THEN [is_valid |-> FALSE, error |-> "Access to table is not allowed"]
    ELSE [is_valid |-> TRUE, error |-> "None"]

NeedsPrefix_Never(s) == FALSE

\* if sanitized and sanitized[0].isdigit()
NeedsPrefix(s) == s # << >> /\ s[1] \in Digits

IdentifierChars_WithSemicolon == Letters \cup Digits \cup {"_", ".", ";"}

\* What re.sub(r'[^a-zA-Z0-9_.]', '', identifier) keeps.
IdentifierChars == Letters \cup Digits \cup {"_", "."}

\* sanitize_identifier(identifier)
sanitize_identifier(identifier) ==
    LET sanitized == SelectSeq(identifier, LAMBDA ch : ch \in IdentifierChars)
    IN  IF NeedsPrefix(sanitized) THEN << "_" >> \o sanitized ELSE sanitized

\* Python values of a result row: None, a str, or a value of another type (an
\* int, given by its digits).
None == [type |-> "NoneType", v |-> << >>]

Str(s) == [type |-> "str", v |-> s]

Number(s) == [type |-> "int", v |-> s]

Stars_OneMore(n) == [i \in 1 .. (n + 1) |-> "*"]

\* '*' * n
Stars(n) == [i \in 1 .. n |-> "*"]

MasksInside_FromFour(value) == Len(value) >= 4

\* if len(value) > 4
MasksInside(value) == Len(value) > 4

\* mask_sensitive_data(data): data is a dict, here a function from its keys.
mask_sensitive_data(data, cfg) ==
    LET sensitive_cols == {lower(cfg.sensitive_columns[i]) :
                              i \in DOMAIN cfg.sensitive_columns}
        should_mask(key) == \E sensitive \in sensitive_cols :
                                contains(lower(key), sensitive)
        mask(value) ==
            IF value.type = "str"
            THEN IF MasksInside(value.v)
                 THEN Str(SubSeq(value.v, 1, 2) \o Stars(Len(value.v) - 4)
                            \o SubSeq(value.v, Len(value.v) - 1, Len(value.v)))
                 ELSE Str(<<"*", "*", "*", "*">>)
            ELSE Str(<<"*", "*", "*", "*">>)
    IN  [key \in DOMAIN data |->
            IF should_mask(key) /\ data[key] # None
            THEN mask(data[key])
            ELSE data[key]]

\* SecurityConfig's default blocked_keywords and sensitive_columns.
DefaultBlockedKeywords ==
    << <<"D", "R", "O", "P">>, <<"D", "E", "L", "E", "T", "E">>, <<"U", "P", "D", "A", "T", "E">>, <<"I", "N", "S", "E", "R", "T">>, <<"A", "L", "T", "E", "R">>, <<"C", "R", "E", "A", "T", "E">>,
       <<"T", "R", "U", "N", "C", "A", "T", "E">>, <<"G", "R", "A", "N", "T">>, <<"R", "E", "V", "O", "K", "E">>, <<"E", "X", "E", "C">>, <<"E", "X", "E", "C", "U", "T", "E">>,
       <<"x", "p", "_">>, <<"s", "p", "_">>, <<"-", "-">>, <<";", "-", "-">>, <<"/", "*">>, <<"*", "/">> >>

DefaultSensitiveColumns ==
    << <<"p", "a", "s", "s", "w", "o", "r", "d">>, <<"p", "w", "d">>, <<"s", "e", "c", "r", "e", "t">>, <<"t", "o", "k", "e", "n">>, <<"a", "p", "i", "_", "k", "e", "y">>,
       <<"s", "s", "n">>, <<"s", "o", "c", "i", "a", "l", "_", "s", "e", "c", "u", "r", "i", "t", "y">>, <<"c", "r", "e", "d", "i", "t", "_", "c", "a", "r", "d">>, <<"c", "a", "r", "d", "_", "n", "u", "m", "b", "e", "r">> >>

\* SecurityConfig(): the fields the three methods read.
DefaultSecurityConfig ==
    [read_only |-> TRUE,
     max_query_length |-> DefaultMaxQueryLength,
     blocked_keywords |-> DefaultBlockedKeywords,
     blocked_tables |-> << >>,
     sensitive_columns |-> DefaultSensitiveColumns]

\* No request is being served and no SecurityManager method is under study.
NoRequest ==
    /\ security = DefaultSecurityConfig
    /\ query = [c \in Callers |-> << >>]
    /\ response = [c \in Callers |-> "none"]
    /\ input = << >>
    /\ output = << >>

----------------------------------------------------------------------------
\* Handles

FreeConn == [st |-> "free", age |-> 0]

FreeHandles == {h \in Handles : conn[h].st = "free"}

\* The handle the next successful _create_connection returns.
NewHandle == CHOOSE h \in FreeHandles : \A g \in FreeHandles : h <= g

\* PooledConnection(connection=conn, created_at=utcnow(), ...)
PooledConnection(cn, h) == [cn EXCEPT ![h] = [st |-> "open", age |-> 0]]

\* _close_connection(h)
CloseConnection(cn, h) == [cn EXCEPT ![h].st = "closed"]

\* The last reference to wrapper h is dropped: a closed handle is gone, an
\* open one stays open with nobody to close it.
Forget(cn, h) == IF cn[h].st = "closed" THEN [cn EXCEPT ![h] = FreeConn] ELSE cn

ShouldRecycle_Never(w) == FALSE

\* _should_recycle: age.total_seconds() > recycle_connections_seconds
ShouldRecycle(w) == w.age > RecycleAge

\* asyncio.Queue(maxsize=config.max_size).full()
Full(q) == Len(q) >= config.max_size

OpenHandles == {h \in Handles : conn[h].st = "open"}

\* Wrappers held by callers (checked out, or inside acquire / its finally).
CheckedOut == {c \in callers : pooled[c] # 0}

\* The history at_close after a step: a wrapper leaves idle when it is closed,
\* and out when its caller's "async with" body is left.
AtCloseNext ==
    [idle |-> {h \in at_close.idle : conn'[h].st = "open"},
     out  |-> {h \in at_close.out :
                 \E c \in Callers : pooled'[c] = h /\ pc'[c] = "using"}]

----------------------------------------------------------------------------
\* __init__: an empty queue of capacity max_size, no connection, lock free,
\* no health-check task.  The configuration is any PoolConfig accepts.
Constructed ==
    /\ config \in PoolConfig
    /\ phase = "new"
    /\ pool = << >>
    /\ active_connections = 0
    /\ lock = 0
    /\ health_check_task = "none"
    /\ audit_pooled = 0
    /\ checked = 0
    /\ to_check = 0
    /\ init_pooled = 0
    /\ conn = [h \in Handles |-> FreeConn]
    /\ pc = [c \in Callers |-> "idle"]
    /\ pooled = [c \in Callers |-> 0]
    /\ result = [c \in Callers |-> "none"]
    /\ verified = [c \in Callers |-> FALSE]
    /\ replaced = [c \in Callers |-> << >>]
    /\ at_close = [idle |-> {}, out |-> {}]

Init == Constructed /\ callers = 1 .. NumCallers /\ NoRequest

\* The clock advances: every existing wrapper gets older.  Ages beyond
\* RecycleAge + 1 are not told apart (only age > RecycleAge is ever read).
Tick ==
    /\ conn' = [h \in Handles |->
                  IF conn[h].st = "free" \/ conn[h].age > RecycleAge
                  THEN conn[h]
                  ELSE [conn[h] EXCEPT !.age = @ + 1]]
    /\ UNCHANGED << poolVars, auditVars, callerVars, init_pooled >>
    /\ at_close' = AtCloseNext

----------------------------------------------------------------------------
\* initialize(): one iteration of "for _ in range(min_size)".  ok is whether
\* _create_connection returned.  The put that follows returns at once while the
\* queue has room, and after the last iteration the health-check task is
\* created and initialize returns, with no await in between; with the queue
\* full the put waits, holding the wrapper.
InitialSize_Max == config.max_size

\* range(self.config.min_size)
InitialSize == config.min_size

initialize(ok) ==
    /\ phase \in {"new", "initializing"}
    /\ init_pooled = 0
    /\ active_connections < InitialSize
    /\ IF ok
       THEN /\ FreeHandles # {}
            /\ conn' = PooledConnection(conn, NewHandle)
            /\ IF ~Full(pool)
               THEN /\ pool' = Append(pool, NewHandle)
                    /\ active_connections' = active_connections + 1
                    /\ init_pooled' = 0
                    /\ IF active_connections + 1 = InitialSize
                       THEN phase' = "ready" /\ health_check_task' = "sleep"
                       ELSE phase' = "initializing" /\ UNCHANGED health_check_task
               ELSE /\ init_pooled' = NewHandle
                    /\ phase' = "initializing"
                    /\ UNCHANGED << pool, active_connections, health_check_task >>
       ELSE /\ phase' = "failed"
            /\ UNCHANGED << pool, active_connections, health_check_task,
                            init_pooled, conn >>
    /\ UNCHANGED << config, callers, lock, audit_pooled, checked, to_check, callerVars >>
    /\ at_close' = AtCloseNext

----------------------------------------------------------------------------
\* acquire(): the caller's steps.  pc[c] is the await the caller is at:
\*   "idle"            not in acquire()
\*   "waiting"         wait_for(self._pool.get(), timeout)
\*   "lock"            async with self._lock (after the timeout)
\*   "creating"        _create_connection() of the overflow, lock held
\*   "recycle_create"  _create_connection() after closing a wrapper for its age
\*   "health"          _is_connection_healthy(pooled.connection)
\*   "health_create"   _create_connection() after closing an unhealthy wrapper
\*   "using"           the body of the caller's "async with" (after the yield)
\*   "release"         the finally block, entered by an exception in acquire()
\*   "release_lock"    async with self._lock in the finally block's QueueFull branch

\* Lines 161-169, reached without an await once a wrapper h is in hand (cn is
\* conn as it is by then): an old wrapper is closed and a creation awaited,
\* any other goes to the health check.  A wrapper held by one coroutine is
\* closed in the step that decides it.
Obtained(c, h, cn) ==
    /\ pooled' = [pooled EXCEPT ![c] = h]
    /\ IF ShouldRecycle(cn[h])
       THEN /\ conn' = CloseConnection(cn, h)
            /\ pc' = [pc EXCEPT ![c] = "recycle_create"]
       ELSE /\ conn' = cn
            /\ pc' = [pc EXCEPT ![c] = "health"]

QueueGet_Peek(q) == q

\* What self._pool.get() / get_nowait() leaves in the queue.
QueueGet(q) == Tail(q)

\* acquire() is entered: with an idle wrapper in the queue, get() returns
\* it at once; with none the caller waits.  Nothing in acquire() looks at
\* whether close() has run, so a caller can enter once initialize() has returned.
acquire_start(c) ==
    /\ phase \in {"ready", "closing", "closed"}
    /\ pc[c] = "idle"
    /\ result' = [result EXCEPT ![c] = "none"]
    /\ verified' = [verified EXCEPT ![c] = FALSE]
    /\ replaced' = [replaced EXCEPT ![c] = << >>]
    /\ IF pool # << >>
       THEN /\ pool' = QueueGet(pool)
            /\ Obtained(c, Head(pool), conn)
       ELSE /\ pc' = [pc EXCEPT ![c] = "waiting"]
            /\ UNCHANGED << pool, pooled, conn >>
    /\ UNCHANGED << config, callers, phase, active_connections, lock, auditVars, init_pooled >>
    /\ at_close' = AtCloseNext

\* The waiting get() returns a wrapper that was put meanwhile.
acquire_get(c) ==
    /\ pc[c] = "waiting"
    /\ pool # << >>
    /\ pool' = QueueGet(pool)
    /\ Obtained(c, Head(pool), conn)
    /\ UNCHANGED << config, callers, phase, active_connections, lock, auditVars, init_pooled,
                    result, verified, replaced >>
    /\ at_close' = AtCloseNext

GetTimedOut_Taken(q) == IF q = << >> THEN q ELSE Tail(q)

\* What the get() that wait_for cancels on its timeout leaves in the queue:
\* a cancelled Queue.get() has removed nothing.
GetTimedOut(q) == q

\* asyncio.TimeoutError from wait_for: the caller goes for the lock.  The
\* timeout can also fire after a wrapper was put and before the woken get()
\* has run; the wrapper then stays in the queue.
acquire_timeout(c) ==
    /\ pc[c] = "waiting"
    /\ pc' = [pc EXCEPT ![c] = "lock"]
    /\ pool' = GetTimedOut(pool)
    /\ UNCHANGED << config, callers, phase, active_connections, lock, auditVars,
                    init_pooled, conn, pooled, result, verified, replaced >>
    /\ at_close' = AtCloseNext

BelowMax_OffByOne == active_connections <= config.max_size

\* if self._active_connections < self.config.max_size
BelowMax == active_connections < config.max_size

\* The lock is taken; below max_size the creation starts with the lock held,
\* else TimeoutError("Connection pool exhausted") leaves acquire() (pooled is
\* None, the finally block does nothing) and releases the lock.
acquire_lock(c) ==
    /\ pc[c] = "lock"
    /\ lock = 0
    /\ IF BelowMax
       THEN /\ lock' = c
            /\ pc' = [pc EXCEPT ![c] = "creating"]
            /\ UNCHANGED result
       ELSE /\ pc' = [pc EXCEPT ![c] = "idle"]
            /\ result' = [result EXCEPT ![c] = "PoolExhausted"]
            /\ UNCHANGED lock
    /\ UNCHANGED << config, callers, phase, pool, active_connections, auditVars,
                    init_pooled, conn, pooled, verified, replaced >>
    /\ at_close' = AtCloseNext

Incremented_Skipped(n) == n

\* self._active_connections += 1
Incremented(n) == n + 1

LockExit_Held(c) == c

\* The lock after caller c leaves "async with self._lock", by the end of the
\* block or by an exception raised in it: free.
LockExit(c) == 0

\* The overflow's _create_connection() ends: a wrapper counted in
\* _active_connections, or the factory's exception (pooled still None).
\* Either way the lock is released.
acquire_create(c, ok) ==
    /\ pc[c] = "creating"
    /\ lock' = LockExit(c)
    /\ IF ok
       THEN /\ FreeHandles # {}
            /\ active_connections' = Incremented(active_connections)
            /\ Obtained(c, NewHandle, PooledConnection(conn, NewHandle))
            /\ UNCHANGED result
       ELSE /\ pc' = [pc EXCEPT ![c] = "idle"]
            /\ result' = [result EXCEPT ![c] = "CreateFailed"]
            /\ UNCHANGED << active_connections, conn, pooled >>
    /\ UNCHANGED << config, callers, phase, pool, auditVars, init_pooled, verified, replaced >>
    /\ at_close' = AtCloseNext

\* The _create_connection() of the recycling ends: the new wrapper takes the
\* old one's place and goes to the health check, or the exception enters the
\* finally block with pooled still the closed wrapper.
acquire_recycle_create(c, ok) ==
    /\ pc[c] = "recycle_create"
    /\ IF ok
       THEN /\ FreeHandles # {}
            /\ conn' = Forget(PooledConnection(conn, NewHandle), pooled[c])
            /\ pooled' = [pooled EXCEPT ![c] = NewHandle]
            /\ replaced' = [replaced EXCEPT ![c] = Append(@, "age")]
            /\ pc' = [pc EXCEPT ![c] = "health"]
            /\ UNCHANGED result
       ELSE /\ pc' = [pc EXCEPT ![c] = "release"]
            /\ result' = [result EXCEPT ![c] = "CreateFailed"]
            /\ UNCHANGED << conn, pooled, replaced >>
    /\ UNCHANGED << poolVars, auditVars, init_pooled, verified >>
    /\ at_close' = AtCloseNext

NeedsReplacement_Never(ok) == FALSE

\* if not await self._is_connection_healthy(pooled.connection)
NeedsReplacement(ok) == ~ok

\* What the factory's health check can answer for handle h.
IsConnectionHealthy(h) == IF conn[h].st = "open" THEN BOOLEAN ELSE {FALSE}

\* The health check ends with answer ok: the wrapper is stamped and yielded,
\* or closed and a creation awaited.
acquire_health(c, ok) ==
    /\ pc[c] = "health"
    /\ ok \in IsConnectionHealthy(pooled[c])
    /\ IF NeedsReplacement(ok)
       THEN /\ conn' = CloseConnection(conn, pooled[c])
            /\ pc' = [pc EXCEPT ![c] = "health_create"]
            /\ UNCHANGED << result, verified >>
       ELSE /\ pc' = [pc EXCEPT ![c] = "using"]
            /\ result' = [result EXCEPT ![c] = "ok"]
            /\ verified' = [verified EXCEPT ![c] = ok]
            /\ UNCHANGED conn
    /\ UNCHANGED << poolVars, auditVars, init_pooled, pooled, replaced >>
    /\ at_close' = AtCloseNext

AfterHealthReplace_Recheck == "health"

\* Lines 181-184 follow the replacement: the new wrapper is stamped and yielded.
AfterHealthReplace == "using"

\* The _create_connection() after a failed health check ends: the new wrapper
\* is yielded as it is, or the exception enters the finally block with pooled
\* still the closed wrapper.
acquire_health_create(c, ok) ==
    /\ pc[c] = "health_create"
    /\ IF ok
       THEN /\ FreeHandles # {}
            /\ conn' = Forget(PooledConnection(conn, NewHandle), pooled[c])
            /\ pooled' = [pooled EXCEPT ![c] = NewHandle]
            /\ replaced' = [replaced EXCEPT ![c] = Append(@, "health")]
            /\ pc' = [pc EXCEPT ![c] = AfterHealthReplace]
            /\ result' = [result EXCEPT ![c] =
                            IF AfterHealthReplace = "using" THEN "ok" ELSE @]
       ELSE /\ pc' = [pc EXCEPT ![c] = "release"]
            /\ result' = [result EXCEPT ![c] = "CreateFailed"]
            /\ UNCHANGED << conn, pooled, replaced >>
    /\ UNCHANGED << poolVars, auditVars, init_pooled, verified >>
    /\ at_close' = AtCloseNext

Decremented_Kept(n) == n

\* self._active_connections -= 1
Decremented(n) == n - 1

\* The finally block (the caller leaves its "async with", or acquire() raised
\* with a wrapper in hand): put_nowait(pooled), or on QueueFull the wrapper is
\* closed and the lock awaited.
release(c) ==
    /\ pc[c] \in {"using", "release"}
    /\ IF ~Full(pool)
       THEN /\ pool' = Append(pool, pooled[c])
            /\ pooled' = [pooled EXCEPT ![c] = 0]
            /\ pc' = [pc EXCEPT ![c] = "idle"]
            /\ UNCHANGED conn
       ELSE /\ conn' = CloseConnection(conn, pooled[c])
            /\ pc' = [pc EXCEPT ![c] = "release_lock"]
            /\ UNCHANGED << pool, pooled >>
    /\ result' = [result EXCEPT ![c] = IF @ = "ok" THEN "none" ELSE @]
    /\ verified' = [verified EXCEPT ![c] = FALSE]
    /\ replaced' = [replaced EXCEPT ![c] = << >>]
    /\ UNCHANGED << config, callers, phase, active_connections, lock, auditVars, init_pooled >>
    /\ at_close' = AtCloseNext

\* async with self._lock: self._active_connections -= 1, and the finally block ends.
release_lock(c) ==
    /\ pc[c] = "release_lock"
    /\ lock = 0
    /\ active_connections' = Decremented(active_connections)
    /\ conn' = Forget(conn, pooled[c])
    /\ pooled' = [pooled EXCEPT ![c] = 0]
    /\ pc' = [pc EXCEPT ![c] = "idle"]
    /\ UNCHANGED << config, callers, phase, pool, lock, auditVars, init_pooled,
                    result, verified, replaced >>
    /\ at_close' = AtCloseNext

----------------------------------------------------------------------------
\* _health_check_loop(): health_check_task is the await the task is at:
\*   "none" not created, "sleep" asyncio.sleep(interval), "health" the health
\*   check of audit_pooled, "close" _close_connection(audit_pooled), "create"
\*   _create_connection() of the replacement, "stopped" cancelled.

\* The head of "while checked < to_check" with queue q and chk wrappers done of
\* tc: get_nowait() and the health check of what it returned, or (loop over, or
\* QueueEmpty) back to the sleep.
CheckNext(q, chk, tc) ==
    IF chk < tc /\ q # << >>
    THEN /\ pool' = QueueGet(q)
         /\ audit_pooled' = Head(q)
         /\ health_check_task' = "health"
         /\ checked' = chk
         /\ to_check' = tc
    ELSE /\ pool' = q
         /\ audit_pooled' = 0
         /\ health_check_task' = "sleep"
         /\ checked' = 0
         /\ to_check' = 0

PutNowait_Dropped(q, w) == q

\* The queue after self._pool.put_nowait(w) on a queue q that is not full.
PutNowait(q, w) == Append(q, w)

\* put_nowait(w) of the loop, then checked += 1; QueueFull is an Exception,
\* which line 239 logs: the pass ends and w is referenced by nothing.
CheckPut(w, cn) ==
    IF ~Full(pool)
    THEN /\ CheckNext(PutNowait(pool, w), checked + 1, to_check)
         /\ conn' = cn
    ELSE /\ CheckNext(pool, 0, 0)
         /\ conn' = Forget(cn, w)

\* The sleep ends: to_check = qsize(), and the first wrapper is taken.
health_check_wake ==
    /\ health_check_task = "sleep"
    /\ CheckNext(pool, 0, Len(pool))
    /\ UNCHANGED << config, callers, phase, active_connections, lock, init_pooled, conn,
                    callerVars >>
    /\ at_close' = AtCloseNext

\* The health check of audit_pooled ends with answer ok.
health_check_health(ok) ==
    /\ health_check_task = "health"
    /\ ok \in IsConnectionHealthy(audit_pooled)
    /\ IF ok
       THEN CheckPut(audit_pooled, conn)
       ELSE /\ health_check_task' = "close"
            /\ UNCHANGED << pool, audit_pooled, checked, to_check, conn >>
    /\ UNCHANGED << config, callers, phase, active_connections, lock, init_pooled, callerVars >>
    /\ at_close' = AtCloseNext

\* _close_connection(audit_pooled) ends.
health_check_close ==
    /\ health_check_task = "close"
    /\ conn' = CloseConnection(conn, audit_pooled)
    /\ health_check_task' = "create"
    /\ UNCHANGED << poolVars, audit_pooled, checked, to_check, init_pooled, callerVars >>
    /\ at_close' = AtCloseNext

\* The replacement's _create_connection() ends: the new wrapper is put in the
\* queue, or the exception is logged by line 239 and the loop sleeps again (the
\* closed wrapper is referenced by nothing, _active_connections is as it was).
health_check_create(ok) ==
    /\ health_check_task = "create"
    /\ IF ok
       THEN /\ FreeHandles # {}
            /\ CheckPut(NewHandle, Forget(PooledConnection(conn, NewHandle), audit_pooled))
       ELSE /\ CheckNext(pool, 0, 0)
            /\ conn' = Forget(conn, audit_pooled)
    /\ UNCHANGED << config, callers, phase, active_connections, lock, init_pooled, callerVars >>
    /\ at_close' = AtCloseNext

----------------------------------------------------------------------------
\* close(): phase "closing" is the drain loop, "closed" is after line 126.

\* Lines 110-116: the health-check task is cancelled and awaited.  CancelledError
\* is raised at the await the task is at and line 237 leaves the loop: the
\* wrapper the task held is referenced by nothing.  close() is also what
\* BaseMCPServer.run's finally reaches after initialize() raised (no task then).
close_cancel ==
    /\ phase \in {"ready", "failed"}
    /\ phase' = "closing"
    /\ IF health_check_task = "none"
       THEN UNCHANGED << health_check_task, audit_pooled, checked, to_check, conn >>
       ELSE /\ health_check_task' = "stopped"
            /\ audit_pooled' = 0
            /\ checked' = 0
            /\ to_check' = 0
            /\ conn' = IF audit_pooled = 0 THEN conn ELSE Forget(conn, audit_pooled)
    /\ at_close' = [idle |-> {pool[i] : i \in 1 .. Len(pool)},
                    out  |-> {pooled[c] : c \in {d \in callers : pc[d] = "using"}}]
    /\ UNCHANGED << config, callers, pool, active_connections, lock, init_pooled, callerVars >>

\* One iteration of "while not self._pool.empty()": get_nowait() and close.
close_drain ==
    /\ phase = "closing"
    /\ pool # << >>
    /\ pool' = QueueGet(pool)
    /\ conn' = Forget(CloseConnection(conn, Head(pool)), Head(pool))
    /\ UNCHANGED << config, callers, phase, active_connections, lock, auditVars,
                    init_pooled, callerVars >>
    /\ at_close' = AtCloseNext

\* The queue is empty: self._active_connections = 0 and close() returns.
close_done ==
    /\ phase = "closing"
    /\ pool = << >>
    /\ active_connections' = 0
    /\ phase' = "closed"
    /\ at_close' = [at_close EXCEPT !.idle = {}]
    /\ UNCHANGED << config, callers, pool, lock, auditVars, init_pooled, conn, callerVars >>

----------------------------------------------------------------------------
Next ==
    \/ Tick /\ UNCHANGED securityVars
    \/ \E ok \in BOOLEAN : initialize(ok) /\ UNCHANGED securityVars
    \/ \E c \in callers : acquire_start(c) /\ UNCHANGED securityVars
    \/ \E c \in callers : acquire_get(c) /\ UNCHANGED securityVars
    \/ \E c \in callers : acquire_timeout(c) /\ UNCHANGED securityVars
    \/ \E c \in callers : acquire_lock(c) /\ UNCHANGED securityVars
    \/ \E c \in callers, ok \in BOOLEAN : acquire_create(c, ok) /\ UNCHANGED securityVars
    \/ \E c \in callers, ok \in BOOLEAN : acquire_recycle_create(c, ok) /\ UNCHANGED securityVars
    \/ \E c \in callers, ok \in BOOLEAN : acquire_health(c, ok) /\ UNCHANGED securityVars
    \/ \E c \in callers, ok \in BOOLEAN : acquire_health_create(c, ok) /\ UNCHANGED securityVars
    \/ \E c \in callers : release(c) /\ UNCHANGED securityVars
    \/ \E c \in callers : release_lock(c) /\ UNCHANGED securityVars
    \/ health_check_wake /\ UNCHANGED securityVars
    \/ \E ok \in BOOLEAN : health_check_health(ok) /\ UNCHANGED securityVars
    \/ health_check_close /\ UNCHANGED securityVars
    \/ \E ok \in BOOLEAN : health_check_create(ok) /\ UNCHANGED securityVars
    \/ close_cancel /\ UNCHANGED securityVars
    \/ close_drain /\ UNCHANGED securityVars
    \/ close_done /\ UNCHANGED securityVars

Spec == Init /\ [][Next]_vars

----------------------------------------------------------------------------
\* The burst: a pool whose factory creates every connection it is asked for,
\* and max_size + 1 callers that each call acquire() once and keep what they
\* get.  The health-check task sleeps health_check_interval_seconds before
\* its first pass and takes wrappers from the idle queue only, which the burst
\* has emptied by then: it takes no step here.
InitBurst == Constructed /\ callers = 1 .. (config.max_size + 1) /\ NoRequest

NextBurst ==
    \/ Tick /\ UNCHANGED securityVars
    \/ initialize(TRUE) /\ UNCHANGED securityVars
    \/ \E c \in callers : result[c] = "none" /\ acquire_start(c) /\ UNCHANGED securityVars
    \/ \E c \in callers : acquire_timeout(c) /\ UNCHANGED securityVars
    \/ \E c \in callers : acquire_lock(c) /\ UNCHANGED securityVars
    \/ \E c \in callers : acquire_create(c, TRUE) /\ UNCHANGED securityVars
    \/ \E c \in callers : acquire_recycle_create(c, TRUE) /\ UNCHANGED securityVars
    \/ \E c \in callers, ok \in BOOLEAN : acquire_health(c, ok) /\ UNCHANGED securityVars
    \/ \E c \in callers : acquire_health_create(c, TRUE) /\ UNCHANGED securityVars

SpecBurst == InitBurst /\ [][NextBurst]_vars

----------------------------------------------------------------------------
\* SecurityManager.validate_query on its own: a configuration and a query,
\* then the call.

\* Longest query, in tokens, and the short max_query_length explored.
MaxTokens == 3

ShortQueryLength == 6

\* What the queries are made of: a write statement, a word that starts one,
\* white space, the statement separator, the comment marker, a table name in
\* both cases.
Tokens == {<<"G", "R", "A", "N", "T">>, <<"e", "x", "e", "c">>, <<" ">>, <<";">>, <<"-", "-">>, <<"t">>, <<"T">>}

RECURSIVE TextsOf(_)
TextsOf(n) ==
    IF n = 0
    THEN {<< >>}
    ELSE TextsOf(n - 1) \cup {t \o k : t \in TextsOf(n - 1), k \in Tokens}

DeleteFromUsers == <<"D", "E", "L", "E", "T", "E", " ", "F", "R", "O", "M", " ", "u", "s", "e", "r", "s">>

Queries == TextsOf(MaxTokens) \cup {DeleteFromUsers}

\* The SecurityConfig values explored.
SecurityConfig ==
    [read_only : BOOLEAN,
     max_query_length : {ShortQueryLength, DefaultMaxQueryLength},
     blocked_keywords : {<< >>, << <<"-", "-">> >>, << <<"g", "r", "a", "n", "t">>, <<"-", "-">> >>,
                         DefaultBlockedKeywords},
     blocked_tables : {<< >>, << <<"t">> >>, << <<"u", "s", "e", "r", "s">> >>},
     sensitive_columns : {DefaultSensitiveColumns}]

\* The pool is not part of these studies: constructed, and left alone.
PoolUnused ==
    /\ Constructed
    /\ config = [min_size |-> 1, max_size |-> 1]
    /\ callers = {}

InitValidate ==
    /\ PoolUnused
    /\ security \in SecurityConfig
    /\ input \in Queries
    /\ output = << >>
    /\ query = [c \in Callers |-> << >>]
    /\ response = [c \in Callers |-> "none"]

validate_query_call ==
    /\ output = << >>
    /\ output' = << validate_query(input, security) >>
    /\ UNCHANGED << poolVars, auditVars, callerVars, init_pooled, conn, at_close,
                    security, query, response, input >>

SpecValidate == InitValidate /\ [][validate_query_call]_vars

----------------------------------------------------------------------------
\* SecurityManager.sanitize_identifier on its own.

\* Longest identifier explored (besides the one of the documented example).
MaxIdentifierLength == 3

IdentifierAlphabet == {"a", "Z", "1", "_", ".", ";", " ", "-"}

RECURSIVE StringsOf(_)
StringsOf(n) ==
    IF n = 0
    THEN {<< >>}
    ELSE StringsOf(n - 1)
           \cup {s \o << ch >> : s \in StringsOf(n - 1), ch \in IdentifierAlphabet}

OneSecretDrop == <<"1", "s", "e", "c", "r", "e", "t", ";", "D", "R", "O", "P">>

Identifiers == StringsOf(MaxIdentifierLength) \cup {OneSecretDrop}

InitSanitize ==
    /\ PoolUnused
    /\ security = DefaultSecurityConfig
    /\ input \in Identifiers
    /\ output = << >>
    /\ query = [c \in Callers |-> << >>]
    /\ response = [c \in Callers |-> "none"]

sanitize_identifier_call ==
    /\ output = << >>
    /\ output' = << sanitize_identifier(input) >>
    /\ UNCHANGED << poolVars, auditVars, callerVars, init_pooled, conn, at_close,
                    security, query, response, input >>

SpecSanitize == InitSanitize /\ [][sanitize_identifier_call]_vars

----------------------------------------------------------------------------
\* SecurityManager.mask_sensitive_data on its own.

Password == <<"p", "a", "s", "s", "w", "o", "r", "d">>

UserPwd == <<"U", "s", "e", "r", "_", "P", "W", "D">>

Name == <<"n", "a", "m", "e">>

FieldNames == {Password, UserPwd, Name}

Hunter2 == <<"h", "u", "n", "t", "e", "r", "2">>

Ann == <<"A", "n", "n">>

\* None, an int, and str of lengths 0, 3, 4, 5 and 7.
Values == {None, Number(<<"7">>), Str(<< >>), Str(Ann), Str(<<"a", "b", "c", "d">>),
           Str(<<"a", "b", "c", "d", "e">>), Str(Hunter2)}

\* The rows: every dict with keys among FieldNames and values among Values.
Rows == UNION {[S -> Values] : S \in SUBSET FieldNames}

SensitiveColumnLists == {DefaultSensitiveColumns, << >>, << Password >>, << <<"P", "W", "D">> >>}

InitMask ==
    /\ PoolUnused
    /\ security \in {[DefaultSecurityConfig EXCEPT !.sensitive_columns = l] :
                        l \in SensitiveColumnLists}
    /\ input \in Rows
    /\ output = << >>
    /\ query = [c \in Callers |-> << >>]
    /\ response = [c \in Callers |-> "none"]

mask_sensitive_data_call ==
    /\ output = << >>
    /\ output' = << mask_sensitive_data(input, security) >>
    /\ UNCHANGED << poolVars, auditVars, callerVars, init_pooled, conn, at_close,
                    security, query, response, input >>

SpecMask == InitMask /\ [][mask_sensitive_data_call]_vars

\* mask_sensitive_data applied to what it returned, under the same configuration.
mask_sensitive_data_again ==
    /\ Len(output) = 1
    /\ output' = Append(output, mask_sensitive_data(output[1], security))
    /\ UNCHANGED << poolVars, auditVars, callerVars, init_pooled, conn, at_close,
                    security, query, response, input >>

NextMaskTwice ==
    \/ mask_sensitive_data_call
    \/ mask_sensitive_data_again

SpecMaskTwice == InitMask /\ [][NextMaskTwice]_vars

----------------------------------------------------------------------------
\* The adapters' _execute_query (SQLServerAdapter, PostgreSQLAdapter): each
\* caller submits one query to a connected adapter whose pool's factory creates
\* the warm-up connections.  response[c] is "none" while the call has not
\* returned (or has raised what acquire() raised, see result[c]), the
\* validation message if it returned that, "rows" for a QueryResult and
\* "backend_error" when the backend refused the statement.

RequestTexts == {<< >>, <<"t">>, <<"G", "R", "A", "N", "T">>, <<"t", ";", "-", "-">>}

\* SecurityConfig(), and a configuration that lets writes through.
RequestPolicies ==
    {DefaultSecurityConfig,
     [DefaultSecurityConfig EXCEPT !.read_only = FALSE, !.blocked_keywords = << >>]}

InitQuery ==
    /\ Constructed
    /\ callers = 1 .. NumCallers
    /\ security \in RequestPolicies
    /\ query \in [Callers -> RequestTexts]
    /\ \A c \in Callers \ callers : query[c] = << >>
    /\ response = [c \in Callers |-> "none"]
    /\ input = << >>
    /\ output = << >>

Proceeds_Always(v) == TRUE

\* "if not is_valid: return json.dumps({"error": error})" is passed.
Proceeds(v) == v.is_valid

\* _execute_query is called: validate_query, then either the error is returned
\* or acquire() is entered, with no await in between.
execute_query(c) ==
    /\ response[c] = "none"
    /\ result[c] = "none"
    /\ pc[c] = "idle"
    /\ IF Proceeds(validate_query(query[c], security))
       THEN /\ acquire_start(c)
            /\ UNCHANGED securityVars
       ELSE /\ phase = "ready"
            /\ response' = [response EXCEPT ![c] = validate_query(query[c], security).error]
            /\ UNCHANGED << poolVars, auditVars, callerVars, init_pooled, conn, at_close,
                            security, query, input, output >>

\* The statement has run on the connection (ok: rows came back and were
\* masked; else the backend's error), and the "async with" is left: the finally
\* block of acquire() runs in the same step.
execute_query_run(c, ok) ==
    /\ pc[c] = "using"
    /\ response[c] = "none"
    /\ response' = [response EXCEPT ![c] = IF ok THEN "rows" ELSE "backend_error"]
    /\ release(c)
    /\ UNCHANGED << security, query, input, output >>

NextQuery ==
    \/ initialize(TRUE) /\ UNCHANGED securityVars
    \/ \E c \in callers : execute_query(c)
    \/ \E c \in callers : acquire_get(c) /\ UNCHANGED securityVars
    \/ \E c \in callers : acquire_timeout(c) /\ UNCHANGED securityVars
    \/ \E c \in callers : acquire_lock(c) /\ UNCHANGED securityVars
    \/ \E c \in callers, ok \in BOOLEAN : acquire_create(c, ok) /\ UNCHANGED securityVars
    \/ \E c \in callers, ok \in BOOLEAN : acquire_health(c, ok) /\ UNCHANGED securityVars
    \/ \E c \in callers, ok \in BOOLEAN :
           acquire_health_create(c, ok) /\ UNCHANGED securityVars
    \/ \E c \in callers : pc[c] = "release" /\ release(c) /\ UNCHANGED securityVars
    \/ \E c \in callers, ok \in BOOLEAN : execute_query_run(c, ok)

SpecQuery == InitQuery /\ [][NextQuery]_vars

----------------------------------------------------------------------------
\* Properties

\* How many places hold wrapper h: positions of the idle queue, callers, the
\* health-check task, initialize's blocked put.
Holders(h) ==
    Cardinality({i \in 1 .. Len(pool) : pool[i] = h})
    + Cardinality({c \in Callers : pooled[c] = h})
    + (IF audit_pooled = h THEN 1 ELSE 0)
    + (IF init_pooled = h THEN 1 ELSE 0)

\* C1: while the pool is initialized and not shut down, the idle wrappers plus
\* the wrappers callers hold are at most max_size.
C1_LiveBound ==
    phase = "ready" => Len(pool) + Cardinality(CheckedOut) <= config.max_size

\* C1 witness: the bound is met, an overflow wrapper among the held ones.
C1_Witness ==
    /\ phase = "ready"
    /\ config.min_size < config.max_size
    /\ Cardinality(CheckedOut) = config.max_size
    /\ \A c \in CheckedOut : pc[c] = "using"

\* C2: no wrapper is held by two parties (two callers, or a caller and the
\* idle queue or the health-check task) at once.
C2_Exclusive == \A h \in Handles : Holders(h) <= 1

\* C2 witness: one wrapper checked out while the health-check task holds another.
C2_Witness ==
    /\ \E c \in callers : pc[c] = "using"
    /\ audit_pooled # 0
    /\ health_check_task = "health"

\* C3: the step with which initialize() returns leaves exactly min_size open,
\* distinct wrappers in the idle queue, none checked out, and a live count of
\* min_size.
C3_InitializePost ==
    [][(phase # "ready" /\ phase' = "ready") =>
         /\ Len(pool') = config.min_size
         /\ Cardinality({pool'[i] : i \in 1 .. Len(pool')}) = config.min_size
         /\ \A i \in 1 .. Len(pool') : conn'[pool'[i]].st = "open"
         /\ CheckedOut' = {}
         /\ active_connections' = config.min_size]_vars

\* C3 witness: initialize() of a pool of min_size 2 has just returned.
C3_Witness ==
    /\ phase = "ready"
    /\ config.min_size = 2
    /\ Len(pool) = 2
    /\ active_connections = 2
    /\ health_check_task = "sleep"
    /\ \A c \in callers : pc[c] = "idle" /\ result[c] = "none"

\* C4 (as claimed): after initialize() raised the factory's error there is no
\* health-check task, and no wrapper in the idle queue, counted, or open.
C4_NoPartialPool ==
    phase = "failed" =>
        /\ health_check_task = "none"
        /\ pool = << >>
        /\ active_connections = 0
        /\ OpenHandles = {}

\* C5: the caller that timed out and has the lock starts one creation if the
\* live count is below max_size, and else fails with PoolExhausted, nothing
\* created; the creation, when the factory returns, adds exactly one open
\* handle and one to the live count (when the factory raises: nothing).
C5_OverflowOrExhausted ==
    [][\A c \in Callers :
         /\ (pc[c] = "lock" /\ pc'[c] # "lock") =>
              /\ conn' = conn
              /\ active_connections' = active_connections
              /\ IF active_connections < config.max_size
                 THEN pc'[c] = "creating" /\ lock' = c
                 ELSE /\ pc'[c] = "idle"
                      /\ result'[c] = "PoolExhausted"
                      /\ pooled'[c] = 0
         /\ (pc[c] = "creating" /\ pc'[c] # "creating") =>
              /\ active_connections < config.max_size
              /\ \/ /\ result'[c] = "CreateFailed"
                    /\ pooled'[c] = 0
                    /\ conn' = conn
                    /\ active_connections' = active_connections
                 \/ /\ pooled'[c] \in OpenHandles' \ OpenHandles
                    /\ OpenHandles' = OpenHandles \cup {pooled'[c]}
                    /\ active_connections' = active_connections + 1]_vars

\* C5 witness: one caller holds the overflow wrapper, another was refused.
C5_Witness ==
    /\ phase = "ready"
    /\ config.min_size < config.max_size
    /\ active_connections = config.max_size
    /\ \E c, d \in callers : result[c] = "PoolExhausted" /\ pc[d] = "using"

Returned(c) == pc[c] = "using" \/ (pc[c] = "idle" /\ result[c] # "none")

\* C6: once all max_size + 1 callers of the burst have returned, exactly
\* max_size hold a connection and the other one got PoolExhausted.
C6_BurstOutcome ==
    (\A c \in callers : Returned(c)) =>
        /\ Cardinality({c \in callers : result[c] = "ok"}) = config.max_size
        /\ Cardinality({c \in callers : result[c] = "PoolExhausted"}) = 1

\* C6 witness: the burst is over on a pool that had to overflow.
C6_Witness ==
    /\ config.min_size < config.max_size
    /\ \A c \in callers : Returned(c)
    /\ \E c \in callers : Len(replaced[c]) > 0

Last(q) == q[Len(q)]

\* The step with which acquire() yields a wrapper to caller c.
Yields(c) == pc[c] # "using" /\ pc'[c] = "using"

\* C7 (as claimed): the wrapper acquire() yields is not older than RecycleAge.
C7_NeverOldAtReturn ==
    [][\A c \in Callers : Yields(c) => conn'[pooled'[c]].age <= RecycleAge]_vars

\* C7 (amended): a wrapper that acquire() finds older than RecycleAge when it
\* gets it is closed and never yielded; what is yielded is a wrapper that was
\* within RecycleAge at that check, or one created during this acquire().
C7_RecycledWhenObtained ==
    [][\A c \in Callers :
         /\ (pc[c] \in {"idle", "waiting", "creating"} /\ pooled'[c] # 0) =>
              IF conn[pooled'[c]].age > RecycleAge
              THEN pc'[c] = "recycle_create" /\ conn'[pooled'[c]].st = "closed"
              ELSE pc'[c] = "health"
         /\ (pc[c] = "recycle_create" /\ pc'[c] # "recycle_create") =>
              \/ pc'[c] = "release" /\ result'[c] = "CreateFailed"
              \/ /\ pc'[c] = "health"
                 /\ pooled'[c] # pooled[c]
                 /\ conn'[pooled'[c]] = [st |-> "open", age |-> 0]
         /\ Yields(c) =>
              /\ pc[c] \in {"health", "health_create"}
              /\ conn'[pooled'[c]].st = "open"
              /\ pooled'[c] = pooled[c] \/ conn'[pooled'[c]].age = 0]_vars

\* C7 witness: a caller holds the wrapper created in place of an old one.
C7_Witness == \E c \in callers : pc[c] = "using" /\ replaced[c] = << "age" >>

\* C8 (as claimed): the handle a caller was yielded passed the health check
\* of that acquire().
C8_YieldedPassedCheck == \A c \in callers : pc[c] = "using" => verified[c]

\* C8 (amended): the handle a caller was yielded passed the health check of
\* that acquire(), or was created in that acquire() in place of one that
\* failed it (and was not checked itself).
C8_PassedOrReplacement ==
    \A c \in callers :
        pc[c] = "using" =>
            \/ verified[c]
            \/ replaced[c] # << >> /\ Last(replaced[c]) = "health"

\* C8 witness: a caller holds an unchecked replacement.
C8_Witness ==
    \E c \in callers :
        pc[c] = "using" /\ ~verified[c] /\ replaced[c] = << "health" >>

C10_Release ==
    [][\A c \in Callers :
         /\ (pc[c] \in {"using", "release"} /\ pc'[c] # pc[c]) =>
              /\ active_connections' = active_connections
              /\ IF Len(pool) < config.max_size
                 THEN /\ pool' = Append(pool, pooled[c])
                      /\ pooled'[c] = 0
                      /\ conn' = conn
                 ELSE /\ pool' = pool
                      /\ conn'[pooled[c]].st = "closed"
                      /\ pc'[c] = "release_lock"
         /\ (pc[c] = "release_lock" /\ pc'[c] # "release_lock") =>
              /\ active_connections' = active_connections - 1
              /\ pool' = pool
         /\ (pc'[c] = "release_lock" /\ pc[c] # "release_lock") =>
              Len(pool) = config.max_size]_vars

\* C10 witness: a release found the idle queue full.
C10_Witness == \E c \in callers : pc[c] = "release_lock"

\* C11: the step with which close() returns finds the health-check task not
\* running, the idle queue empty, and every wrapper that was in the idle queue
\* when close() was called closed.
C11_ShutdownPost ==
    [][(phase = "closing" /\ phase' = "closed") =>
         /\ health_check_task' \in {"none", "stopped"}
         /\ pool' = << >>
         /\ at_close.idle = {}]_vars

\* C12: a wrapper that a caller held when close() was called is, at the step
\* that releases it, closed and not put in the idle queue.
C12_ClosedAtRelease ==
    [][\A c \in callers :
         (pc[c] = "using" /\ pc'[c] # "using" /\ pooled[c] \in at_close.out) =>
             /\ conn'[pooled[c]].st # "open"
             /\ \A i \in 1 .. Len(pool') : pool'[i] # pooled[c]]_vars

\* C13: every step of an acquire() that ends in PoolExhausted (it finds the
\* queue empty and waits, times out, takes the lock and raises) leaves the
\* idle queue, the live count, the lock and every connection as they were, and
\* the caller ends holding nothing.
C13_NoReservation ==
    [][\A c \in callers :
         (\/ pc[c] = "idle" /\ pc'[c] = "waiting"
          \/ pc[c] = "waiting" /\ pc'[c] = "lock"
          \/ pc[c] = "lock" /\ result'[c] = "PoolExhausted") =>
             /\ pool' = pool
             /\ active_connections' = active_connections
             /\ lock' = lock
             /\ conn' = conn
             /\ pooled'[c] = 0]_vars

\* C13 witness: a caller was refused while a wrapper had come back to the
\* idle queue after its timeout; the wrapper is still there.
C13_Witness ==
    \E c \in callers :
        /\ pc[c] = "idle"
        /\ result[c] = "PoolExhausted"
        /\ pool # << >>
        /\ active_connections = config.max_size

\* C14: the step at which a _create_connection() of acquire() raises (overflow,
\* recycling, health replacement) reports the error to that caller, leaves the
\* lock free of it, and leaves the live count and the idle queue as they were;
\* the wrapper the caller then still holds goes back to the idle queue by the
\* finally block.  The lock is only ever held by a caller whose overflow
\* creation is running, and a wrapper is yielded open whatever was left in the
\* idle queue, so a later acquire() whose creations succeed is served.
C14_CreateFailureContained ==
    [][/\ lock # 0 => pc[lock] = "creating"
       /\ \A c \in callers :
            /\ (result'[c] = "CreateFailed" /\ result[c] # "CreateFailed") =>
                 /\ pc[c] \in {"creating", "recycle_create", "health_create"}
                 /\ lock' # c
                 /\ active_connections' = active_connections
                 /\ pool' = pool
                 /\ IF pc[c] = "creating"
                    THEN pc'[c] = "idle" /\ pooled'[c] = 0
                    ELSE pc'[c] = "release" /\ pooled'[c] = pooled[c]
            /\ (pc[c] = "release" /\ pc'[c] = "idle") =>
                 /\ pool' = Append(pool, pooled[c])
                 /\ active_connections' = active_connections
            /\ (pc[c] # "using" /\ pc'[c] = "using") =>
                 /\ conn'[pooled'[c]].st = "open"
                 /\ lock' # c]_vars

\* C14 witness: in a pool of one wrapper a caller's acquire() failed in a
\* creation, and another caller's acquire() has since replaced what it found
\* in the idle queue and been served; the lock is free.
C14_Witness ==
    /\ phase = "ready"
    /\ config.max_size = 1
    /\ lock = 0
    /\ \E c, d \in callers :
          /\ pc[c] = "idle"
          /\ result[c] = "CreateFailed"
          /\ pc[d] = "using"
          /\ replaced[d] # << >>

\* The rules of the validation pipeline, each stated on its own: 1 empty or
\* white space only, 2 too long, 3 a write statement under read_only, 4 an
\* injection pattern, 5 a blocked keyword as a substring in any case, 6 a
\* blocked table as a whole word.
RuleMatches(k, text, policy) ==
    CASE k = 1 -> \A i \in 1 .. Len(text) : text[i] \in Whitespace
      [] k = 2 -> Len(text) > policy.max_query_length
      [] k = 3 -> /\ policy.read_only
                  /\ \E i \in DOMAIN WRITE_PATTERNS : search(WRITE_PATTERNS[i], text)
      [] k = 4 -> \E i \in DOMAIN INJECTION_PATTERNS :
                      search(INJECTION_PATTERNS[i], text)
      [] k = 5 -> \E i \in DOMAIN policy.blocked_keywords :
                      contains(lower(text), lower(policy.blocked_keywords[i]))
      [] k = 6 -> \E i \in DOMAIN policy.blocked_tables :
                    \E j \in 1 .. (Len(text) + 1) :
                      /\ occurs_at(lower(policy.blocked_tables[i]), lower(text), j)
                      /\ at_boundary(text, j)
                      /\ at_boundary(text, j + Len(policy.blocked_tables[i]))

\* The message validate_query gives for each rule: EmptyRequest, TooLong,
\* WriteInReadOnlyMode, SuspiciousPattern, BlockedKeyword, BlockedResource.
RuleError ==
    << "Empty query provided",
       "Query exceeds maximum length",
       "Write operations are not allowed in read-only mode",
       "Query contains potentially dangerous patterns",
       "Query contains blocked keyword",
       "Access to table is not allowed" >>

RulesMatching(text, policy) == {k \in DOMAIN RuleError : RuleMatches(k, text, policy)}

\* C16: for every query and configuration validate_query rejects with the
\* message of the lowest-numbered rule that matches, and accepts exactly when
\* no rule matches.
C16_FirstRuleWins ==
    output # << >> =>
        LET hits == RulesMatching(input, security)
        IN  IF hits = {}
            THEN output[1] = [is_valid |-> TRUE, error |-> "None"]
            ELSE output[1] = [is_valid |-> FALSE,
                              error |-> RuleError[CHOOSE k \in hits :
                                                    \A j \in hits : k <= j]]

\* C16 witness: a write statement that is also a blocked keyword of a
\* read-only configuration is refused as a write, and a query that ends a
\* statement with a comment is refused as an injection before the blocked
\* keyword "--" is looked for.
C16_Witness ==
    /\ output # << >>
    /\ RulesMatching(input, security) = {4, 5}
    /\ output[1].error = RuleError[4]

\* C17: "DELETE FROM users", under a configuration whose max_query_length it
\* does not exceed, is refused as a write when read_only is set, and accepted
\* when read_only is not set and no keyword and no table is blocked.
C17_DeleteFromUsers ==
    (output # << >> /\ input = DeleteFromUsers
       /\ Len(input) <= security.max_query_length) =>
        /\ security.read_only => output[1] = [is_valid |-> FALSE, error |-> RuleError[3]]
        /\ (~security.read_only /\ security.blocked_keywords = << >>
              /\ security.blocked_tables = << >>) =>
               output[1] = [is_valid |-> TRUE, error |-> "None"]

\* C17 witness: the text was validated and accepted, read_only not set.
C17_Witness ==
    /\ input = DeleteFromUsers
    /\ ~security.read_only
    /\ security.blocked_keywords = << >>
    /\ output = << [is_valid |-> TRUE, error |-> "None"] >>

\* The other half of the C17 example: refused as a write under read_only.
C17_WitnessReadOnly ==
    /\ input = DeleteFromUsers
    /\ security.read_only
    /\ output = << [is_valid |-> FALSE, error |-> RuleError[3]] >>

\* C18 (as claimed): sanitize_identifier("1secret;DROP") returns "_secretDROP".
C18_SecretDrop ==
    (input = OneSecretDrop /\ output # << >>) => output[1] = <<"_", "s", "e", "c", "r", "e", "t", "D", "R", "O", "P">>

\* C18 (amended): sanitize_identifier("1secret;DROP") returns "_1secretDROP":
\* the ";" is removed, the digit is kept and "_" is put before it.
C18_OneSecretDrop ==
    (input = OneSecretDrop /\ output # << >>) => output[1] = <<"_", "1", "s", "e", "c", "r", "e", "t", "D", "R", "O", "P">>

\* C18 witness: the call on "1secret;DROP" has returned.
C18_Witness == input = OneSecretDrop /\ output # << >>

\* C19: sanitize_identifier returns for every identifier (the call is enabled
\* for whatever input), and what it returns has only characters of
\* [A-Za-z0-9_.] and no digit in first place.
C19_SafeIdentifier ==
    /\ output = << >> => ENABLED sanitize_identifier_call
    /\ output # << >> =>
         /\ \A i \in 1 .. Len(output[1]) :
                output[1][i] \in Letters \cup Digits \cup {"_", "."}
         /\ output[1] # << >> => output[1][1] \notin Digits

\* C19 witness: characters were removed from an identifier of full length and
\* what was left began with a digit, so "_" was put in front.
C19_Witness ==
    /\ Len(input) = MaxIdentifierLength
    /\ input[1] = ";"
    /\ input[2] \in Digits
    /\ output # << >>
    /\ Len(output[1]) = MaxIdentifierLength
    /\ output[1][1] = "_"

\* Field name key contains one of the configured sensitive substrings, letter
\* case ignored.
IsSensitive(key, policy) ==
    \E i \in DOMAIN policy.sensitive_columns :
        \E j \in 1 .. (Len(key) + 1) :
            occurs_at(upper(policy.sensitive_columns[i]), upper(key), j)

\* C20: mask_sensitive_data returns a row with the same field names; a
\* sensitive field with a value that is not None holds, for a str of more than
\* 4 characters, its first two characters, length - 4 mask characters and its
\* last two characters ("hunter2" gives "hu***r2"), and the mask token "****"
\* for any other value; every other field and every None is as it was.
C20_Masked ==
    output # << >> =>
        /\ DOMAIN output[1] = DOMAIN input
        /\ \A key \in DOMAIN input :
             LET value == input[key]
                 n == Len(value.v)
             IN  IF IsSensitive(key, security) /\ value.type # "NoneType"
                 THEN IF value.type = "str" /\ n > 4
                      THEN /\ output[1][key].type = "str"
                           /\ Len(output[1][key].v) = n
                           /\ \A i \in 1 .. n :
                                output[1][key].v[i] =
                                    IF i <= 2 \/ i > n - 2 THEN value.v[i] ELSE "*"
                           /\ value.v = Hunter2 => output[1][key].v = <<"h", "u", "*", "*", "*", "r", "2">>
                      ELSE output[1][key] = Str(<<"*", "*", "*", "*">>)
                 ELSE output[1][key] = value

\* C20 witness: {"password": "hunter2", "name": "Ann"} with "password"
\* sensitive came back as {"password": "hu***r2", "name": "Ann"}.
C20_Witness ==
    /\ security.sensitive_columns = << Password >>
    /\ DOMAIN input = {Password, Name}
    /\ input[Password] = Str(Hunter2)
    /\ input[Name] = Str(Ann)
    /\ output # << >>
    /\ output[1][Password] = Str(<<"h", "u", "*", "*", "*", "r", "2">>)
    /\ output[1][Name] = Str(Ann)

\* C15: a caller whose query validate_query refuses is never inside acquire(),
\* holds no wrapper and has nothing run on a backend; the step that returns
\* the refusal leaves the pool and every connection as they were.
C15_RejectedNeverAcquires ==
    [][\A c \in callers :
         ~validate_query(query[c], security).is_valid =>
             /\ pc'[c] = "idle"
             /\ pooled'[c] = 0
             /\ result'[c] = "none"
             /\ response'[c] \notin {"rows", "backend_error"}
             /\ response'[c] # response[c] =>
                  /\ response'[c] = validate_query(query[c], security).error
                  /\ UNCHANGED << pool, active_connections, lock, conn >>]_vars

\* C15 witness: one caller's query was refused and returned as such, while
\* another caller's query ran on a connection.
C15_Witness ==
    \E c, d \in callers :
        /\ ~validate_query(query[c], security).is_valid
        /\ response[c] = validate_query(query[c], security).error
        /\ response[d] = "rows"

\* C21: mask_sensitive_data returns for every row, and for what it returned
\* (both calls are enabled whatever the row), and the second result equals
\* the first.
C21_Idempotent ==
    /\ output = << >> => ENABLED mask_sensitive_data_call
    /\ Len(output) = 1 => ENABLED mask_sensitive_data_again
    /\ Len(output) = 2 => output[2] = output[1]

\* C21 witness: the first call masked "hunter2" and replaced an int and a
\* short str by the mask token, and the second call has returned.
C21_Witness ==
    /\ Len(output) = 2
    /\ security.sensitive_columns = DefaultSensitiveColumns
    /\ DOMAIN input = FieldNames
    /\ input[Password] = Str(Hunter2)
    /\ input[UserPwd] = Number(<<"7">>)
    /\ output[1][Password] = Str(<<"h", "u", "*", "*", "*", "r", "2">>)
    /\ output[1][UserPwd] = Str(<<"*", "*", "*", "*">>)

\* C22: the configuration of every constructed pool has
\* 1 <= min_size <= max_size.
C22_MinAtMostMax == 1 <= config.min_size /\ config.min_size <= config.max_size

\* The wrappers that exist and are neither in the idle queue nor held by a
\* caller (nor by initialize).
OutOfCirculation ==
    {h \in Handles :
        /\ conn[h].st # "free"
        /\ \A i \in 1 .. Len(pool) : pool[i] # h
        /\ \A c \in Callers : pooled[c] # h
        /\ init_pooled # h}

\* C23: while the health-check task runs, the only wrapper out of circulation
\* is the one it holds (none while it sleeps), and the step that ends the
\* check of a healthy wrapper puts that same wrapper, open, at the end of
\* the idle queue (from where the same step may take the next one to check).
C23_AuditHoldsOne ==
    [][/\ health_check_task \in {"sleep", "health", "close", "create"} =>
            /\ OutOfCirculation = {audit_pooled} \ {0}
            /\ health_check_task = "sleep" => audit_pooled = 0
       /\ (/\ health_check_task = "health"
           /\ health_check_task' \in {"sleep", "health"}
           /\ << health_check_task', checked', audit_pooled' >>
                 # << health_check_task, checked, audit_pooled >>) =>
              /\ conn'[audit_pooled].st = "open"
              /\ Append(pool, audit_pooled) =
                    IF audit_pooled' = 0 THEN pool' ELSE << audit_pooled' >> \o pool'
      ]_vars

\* C23 witness: the task is replacing a wrapper it closed while another
\* wrapper is idle and a third party holds nothing.
C23_Witness ==
    /\ health_check_task = "create"
    /\ audit_pooled # 0
    /\ conn[audit_pooled].st = "closed"
    /\ pool # << >>
    /\ CheckedOut = {}

\* C24: the lock is not held by a caller whose overflow creation is waiting
\* on the factory.
C24_CreateOutsideLock == \A c \in callers : pc[c] = "creating" => lock # c

\* C25: the wrapper the health-check task holds when close() cancels it is,
\* once the task has stopped, closed or back in the idle queue.
C25_AuditWrapperNotDropped ==
    [][(health_check_task \in {"health", "close", "create"}
          /\ health_check_task' = "stopped") =>
         \/ conn'[audit_pooled].st # "open"
         \/ \E i \in 1 .. Len(pool') : pool'[i] = audit_pooled]_vars

\* C26: while the pool is initialized and not shut down, the live count is
\* not negative and equals the number of wrappers the pool accounts for: in
\* the idle queue, in a caller's hands, or held by the health-check task.
C26_LiveCountAccurate ==
    phase = "ready" =>
        /\ active_connections >= 0
        /\ active_connections =
              Len(pool) + Cardinality(CheckedOut) + (IF audit_pooled # 0 THEN 1 ELSE 0)

\* C27: in a pool whose min_size is not above its max_size, the connections
\* created and not closed are never more than max_size, close() called or not.
C27_OpenHandlesBound ==
    config.min_size <= config.max_size => Cardinality(OpenHandles) <= config.max_size

\* C28: with a factory that always succeeds, initialize() is never suspended
\* at the put of a wrapper into an idle queue that is already full: nothing
\* takes from the queue before initialize() has returned, so such a put never
\* returns.
C28_InitializeNeverBlocked == init_pooled = 0

\* C29: the idle queue never holds a wrapper whose connection has already
\* been closed by _close_connection.
C29_NoClosedWrapperIdle == \A i \in 1 .. Len(pool) : conn[pool[i]].st = "open"

\* C30: capacity is never lost for good.  Whenever the pool is initialized,
\* not shut down, and neither a caller nor the health-check task holds a
\* wrapper, an acquire() can be served: the idle queue is not empty or the
\* live count is below max_size.
C30_CapacityNotLost ==
    (phase = "ready" /\ CheckedOut = {} /\ audit_pooled = 0) =>
        (pool # << >> \/ active_connections < config.max_size)

====
